---- MODULE Spec2Model ----
(***************************************************************************)
(* Model of the parsers of auditor_unified.py: the byte/string extractor   *)
(* of read_file_content, the app-links classifier get_app_links_state, the *)
(* package-dump analyser analyze_security_posture and the directory        *)
(* listing parser parse_ls_output with the enrichment of                   *)
(* list_files_in_path.                                                     *)
(*                                                                         *)
(* Each endpoint is a machine of its own: the text or the bytes the device *)
(* returns are built up unit by unit (a byte, a line, a token), and one    *)
(* action then runs the whole handler on them.                             *)
(***************************************************************************)
EXTENDS Integers, Sequences, FiniteSets, TLC

VARIABLES
    pc,             \* "input": the device output is being produced; "done": the handler returned
    raw_bytes,      \* read_file_content: the bytes `cat` returned
    file_response,  \* read_file_content: the dictionary it returns
    output,         \* get_app_links_state: the lines of `pm get-app-links`
    app_links,      \* get_app_links_state: the "domains" list it returns
    raw_data,       \* analyze_security_posture: the tokens of the package dump
    raise_at,       \* analyze_security_posture: the extraction that raised (0: none)
    analysis,       \* analyze_security_posture: the dictionary it returns
    ls_output,      \* list_files_in_path: the lines of `ls -l`
    magic_output,   \* list_files_in_path: the lines of `file *`, or the probe's failure
    files           \* list_files_in_path: the "files" list it returns

vars == <<pc, raw_bytes, file_response, output, app_links, raw_data, raise_at,
          analysis, ls_output, magic_output, files>>

Idle == "idle"

(***************************************************************************)
(* Generic helpers.                                                        *)
(***************************************************************************)
Range(s) == {s[i] : i \in DOMAIN s}

RECURSIVE SortedSeq(_)
\* sorted(list(set(xs))) for identifiers represented by their rank in
\* lexicographic order: the ascending sequence of a finite set of integers.
SortedSeq(S) ==
    IF S = {} THEN <<>>
    ELSE LET m == CHOOSE x \in S : \A y \in S : x <= y
         IN <<m>> \o SortedSeq(S \ {m})

RECURSIVE Flatten(_)
Flatten(ss) == IF ss = <<>> THEN <<>> ELSE Head(ss) \o Flatten(Tail(ss))

(***************************************************************************)
(* read_file_content and extract_strings_from_bytes.                       *)
(***************************************************************************)
MaxBytes == 5

\* NUL, 'h', a continuation byte, a 2-byte lead, a 3-byte lead, an invalid byte.
ByteAlphabet == {0, 104, 169, 195, 226, 255}

\* The bytes 68 69 FF 74 68 65 72 65: "hi", an invalid byte, "there".
ScenarioBytes == <<104, 105, 255, 116, 104, 101, 114, 101>>

ReplacementChar == 65533

IsCont(b) == b >= 128 /\ b <= 191

\* One step of CPython's UTF-8 decoder at index i of b: a decoded code point
\* (ok) or an error, with the number of bytes it covers.
Utf8Step(b, i) ==
    LET ch   == b[i]
        left == Len(b) - i + 1
        c2ok(lo, hi) == left >= 2 /\ b[i+1] >= lo /\ b[i+1] <= hi
        lo3 == IF ch = 224 THEN 160 ELSE 128
        hi3 == IF ch = 237 THEN 159 ELSE 191
        lo4 == IF ch = 240 THEN 144 ELSE 128
        hi4 == IF ch = 244 THEN 143 ELSE 191
    IN  IF ch < 128 THEN [ok |-> TRUE, len |-> 1, cp |-> ch]
        ELSE IF ch < 194 \/ ch > 244 THEN [ok |-> FALSE, len |-> 1, cp |-> 0]
        ELSE IF ch < 224 THEN
            IF left < 2 THEN [ok |-> FALSE, len |-> left, cp |-> 0]
            ELSE IF ~IsCont(b[i+1]) THEN [ok |-> FALSE, len |-> 1, cp |-> 0]
            ELSE [ok |-> TRUE, len |-> 2, cp |-> ((ch % 32) * 64) + (b[i+1] % 64)]
        ELSE IF ch < 240 THEN
            IF left < 2 THEN [ok |-> FALSE, len |-> left, cp |-> 0]
            ELSE IF ~c2ok(lo3, hi3) THEN [ok |-> FALSE, len |-> 1, cp |-> 0]
            ELSE IF left < 3 THEN [ok |-> FALSE, len |-> left, cp |-> 0]
            ELSE IF ~IsCont(b[i+2]) THEN [ok |-> FALSE, len |-> 2, cp |-> 0]
            ELSE [ok |-> TRUE, len |-> 3,
                  cp |-> ((ch % 16) * 4096) + ((b[i+1] % 64) * 64) + (b[i+2] % 64)]
        ELSE
            IF left < 2 THEN [ok |-> FALSE, len |-> left, cp |-> 0]
            ELSE IF ~c2ok(lo4, hi4) THEN [ok |-> FALSE, len |-> 1, cp |-> 0]
            ELSE IF left < 3 THEN [ok |-> FALSE, len |-> left, cp |-> 0]
            ELSE IF ~IsCont(b[i+2]) THEN [ok |-> FALSE, len |-> 2, cp |-> 0]
            ELSE IF left < 4 THEN [ok |-> FALSE, len |-> left, cp |-> 0]
            ELSE IF ~IsCont(b[i+3]) THEN [ok |-> FALSE, len |-> 3, cp |-> 0]
            ELSE [ok |-> TRUE, len |-> 4,
                  cp |-> ((ch % 8) * 262144) + ((b[i+1] % 64) * 4096)
                         + ((b[i+2] % 64) * 64) + (b[i+3] % 64)]

RECURSIVE DecodeFrom(_, _, _)
\* bytes.decode('utf-8', errors=mode) from index i: the code points.
DecodeFrom(b, i, mode) ==
    IF i > Len(b) THEN <<>>
    ELSE LET s == Utf8Step(b, i)
             here == IF s.ok THEN <<s.cp>>
                     ELSE IF mode = "replace" THEN <<ReplacementChar>>
                     ELSE <<>>
         IN here \o DecodeFrom(b, i + s.len, mode)

decode_replace(b) == DecodeFrom(b, 1, "replace")

decode_ignore(b) == DecodeFrom(b, 1, "ignore")

\* The character class [ -~].
IsPrintable(c) == c >= 32 /\ c <= 126

min_length == 4

RECURSIVE FindRuns(_, _, _)
\* re.findall(r"[ -~]{min_length,}", text) from index i: the maximal runs of
\* printable characters of at least n characters, in order, duplicates kept.
FindRuns(text, i, n) ==
    IF i > Len(text) THEN <<>>
    ELSE IF ~IsPrintable(text[i]) THEN FindRuns(text, i + 1, n)
    ELSE LET stops == {j \in i..Len(text) : ~IsPrintable(text[j])}
             end   == IF stops = {} THEN Len(text) + 1
                      ELSE CHOOSE j \in stops : \A k \in stops : j <= k
             run   == SubSeq(text, i, end - 1)
         IN (IF Len(run) >= n THEN <<run>> ELSE <<>>) \o FindRuns(text, end, n)

extract_strings_from_bytes(data) == FindRuns(decode_ignore(data), 1, min_length)

\* The ASCII code of base64 digit d (0..63), and of the padding.
B64Char(d) ==
    IF d < 26 THEN 65 + d
    ELSE IF d < 52 THEN 97 + (d - 26)
    ELSE IF d < 62 THEN 48 + (d - 52)
    ELSE IF d = 62 THEN 43 ELSE 47

B64Pad == 61

RECURSIVE B64Encode(_)
\* base64.b64encode(b).decode('utf-8'): 3 bytes to 4 digits, '=' padding.
B64Encode(b) ==
    IF Len(b) = 0 THEN <<>>
    ELSE IF Len(b) = 1 THEN
        <<B64Char(b[1] \div 4), B64Char((b[1] % 4) * 16), B64Pad, B64Pad>>
    ELSE IF Len(b) = 2 THEN
        <<B64Char(b[1] \div 4), B64Char(((b[1] % 4) * 16) + (b[2] \div 16)),
          B64Char((b[2] % 16) * 4), B64Pad>>
    ELSE
        <<B64Char(b[1] \div 4), B64Char(((b[1] % 4) * 16) + (b[2] \div 16)),
          B64Char(((b[2] % 16) * 4) + (b[3] \div 64)), B64Char(b[3] % 64)>>
        \o B64Encode(SubSeq(b, 4, Len(b)))

\* UTF-8 of one code point (str.encode), used to re-encode the lossy text.
Utf8Encode(cp) ==
    IF cp < 128 THEN <<cp>>
    ELSE IF cp < 2048 THEN <<192 + (cp \div 64), 128 + (cp % 64)>>
    ELSE IF cp < 65536 THEN
        <<224 + (cp \div 4096), 128 + ((cp \div 64) % 64), 128 + (cp % 64)>>
    ELSE <<240 + (cp \div 262144), 128 + ((cp \div 4096) % 64),
           128 + ((cp \div 64) % 64), 128 + (cp % 64)>>

\* A slip: the blob built from the decoded text instead of the raw bytes.
b64_content_of_text(raw) ==
    B64Encode(Flatten([i \in 1..Len(decode_replace(raw)) |->
                           Utf8Encode(decode_replace(raw)[i])]))

b64_content(raw) == B64Encode(raw)

read_file_content(raw) ==
    [size    |-> Len(raw),
     content |-> decode_replace(raw),
     strings |-> extract_strings_from_bytes(raw),
     base64  |-> b64_content(raw)]

InitStrings ==
    /\ pc = "input"
    /\ raw_bytes \in {<<>>, ScenarioBytes}
    /\ file_response = Idle
    /\ output = Idle /\ app_links = Idle
    /\ raw_data = Idle /\ raise_at = 0 /\ analysis = Idle
    /\ ls_output = Idle /\ magic_output = Idle /\ files = Idle

\* The device shell returns one more byte of the file.
CatByte ==
    /\ pc = "input"
    /\ Len(raw_bytes) < MaxBytes
    /\ \E b \in ByteAlphabet : raw_bytes' = Append(raw_bytes, b)
    /\ UNCHANGED <<pc, file_response, output, app_links, raw_data, raise_at,
                   analysis, ls_output, magic_output, files>>

\* GET /files/{device_id}/read
ReadFileContent ==
    /\ pc = "input"
    /\ file_response' = read_file_content(raw_bytes)
    /\ pc' = "done"
    /\ UNCHANGED <<raw_bytes, output, app_links, raw_data, raise_at,
                   analysis, ls_output, magic_output, files>>

NextStrings == CatByte \/ ReadFileContent

SpecStrings == InitStrings /\ [][NextStrings]_vars

(***************************************************************************)
(* Claims about read_file_content.                                         *)
(***************************************************************************)
\* The base64 digit a character stands for.
B64Digit(c) == CHOOSE d \in 0..63 : B64Char(d) = c

RECURSIVE B64Decode(_)
\* The standard base64 decoder: 4 characters to 3 bytes, less the padding.
B64Decode(t) ==
    IF Len(t) < 4 THEN <<>>
    ELSE LET d1 == B64Digit(t[1])
             d2 == B64Digit(t[2])
             b1 == (d1 * 4) + (d2 \div 16)
         IN IF t[3] = B64Pad THEN <<b1>>
            ELSE LET d3 == B64Digit(t[3])
                     b2 == ((d2 % 16) * 16) + (d3 \div 4)
                 IN IF t[4] = B64Pad THEN <<b1, b2>>
                    ELSE <<b1, b2, ((d3 % 4) * 64) + B64Digit(t[4])>>
                         \o B64Decode(SubSeq(t, 5, Len(t)))

IsSubstringOf(s, b) ==
    \E i \in 1..(Len(b) + 1) : i + Len(s) - 1 <= Len(b) /\ SubSeq(b, i, i + Len(s) - 1) = s

HasInvalidUtf8(b) == ReplacementChar \in Range(decode_replace(b))

\* C2: every string extract_strings_from_bytes returns is a run of at least 4
\* printable-ASCII bytes that is contiguous in the input, so an invalid byte
\* between two printable fragments separates them; for the bytes
\* 68 69 FF 74 68 65 72 65 the returned list is empty.
C2_RunsContiguousInInput ==
    pc = "done" =>
        /\ \A k \in DOMAIN file_response.strings :
              LET s == file_response.strings[k]
              IN /\ Len(s) >= 4
                 /\ \A i \in DOMAIN s : IsPrintable(s[i])
                 /\ IsSubstringOf(s, raw_bytes)
        /\ (raw_bytes = ScenarioBytes => file_response.strings = <<>>)

\* C5: base64-decoding the returned base64 field yields exactly the bytes
\* read, and size is their number, whether or not they are valid UTF-8.
C5_Base64RoundTrip ==
    pc = "done" =>
        /\ B64Decode(file_response.base64) = raw_bytes
        /\ file_response.size = Len(raw_bytes)

\* C5's case: a file read whose bytes are not valid UTF-8, of a length that
\* needs padding.
C5_Witness ==
    /\ pc = "done"
    /\ HasInvalidUtf8(raw_bytes)
    /\ Len(raw_bytes) % 3 # 0
    /\ file_response.content # raw_bytes

(***************************************************************************)
(* get_app_links_state.  The output of `pm get-app-links` is a sequence of *)
(* lines; a line is the header of the verification-state section, the      *)
(* header of the user section, a "Disabled:" marker, a line naming a       *)
(* domain, or a line "<hostname>: <digits>".                               *)
(***************************************************************************)
MaxLinkLines == 5

HeaderLine   == [k |-> "Domain verification state:"]

User0Line    == [k |-> "User 0:"]

DisabledLine == [k |-> "Disabled:"]

NameLine(d)  == [k |-> "name", domain |-> d]

StateLine(d, digits) == [k |-> "state", domain |-> d, state_code |-> digits]

\* The digit strings "0", "1", "2", "3" and "1024".
StateCodes == {<<0>>, <<1>>, <<2>>, <<3>>, <<1, 0, 2, 4>>}

LinkLines ==
    {HeaderLine, User0Line, DisabledLine, NameLine("a.com"), NameLine("xa.com")}
    \cup {StateLine("a.com", c) : c \in StateCodes}

\* Python's `x in y` on the hostnames of the model: "a.com" occurs in "xa.com".
StrContains(hay, needle) == hay = needle \/ (hay = "xa.com" /\ needle = "a.com")

\* Whether the text of a line contains the hostname d.
Mentions(line, d) ==
    line.k \in {"name", "state"} /\ StrContains(line.domain, d)

RECURSIVE ParseInt(_)
\* int(state_code) of a string of decimal digits.
ParseInt(digits) ==
    IF Len(digits) = 0 THEN 0
    ELSE (ParseInt(SubSeq(digits, 1, Len(digits) - 1)) * 10) + digits[Len(digits)]

RECURSIVE FormatInt(_)
\* str(code) inside the f-string: the decimal digits of a natural number.
FormatInt(n) ==
    IF n < 10 THEN <<n>> ELSE Append(FormatInt(n \div 10), n % 10)

\* A description string, kept as its three pieces: a fixed text, the digits
\* of a formatted code (empty when the text holds none) and what `+=` added.
Description(text, digits) == [text |-> text, digits |-> digits, added |-> ""]

FirstIndex(S) == CHOOSE i \in S : \A j \in S : i <= j

\* re.search(r"Domain verification state:(.*?)(User 0:|$)", output, re.DOTALL):
\* the indexes of the lines of group(1), the block between the first header
\* and the first "User 0:" after it (or the end of the text).
VerificationBlock(out) ==
    LET hs == {i \in DOMAIN out : out[i] = HeaderLine}
    IN IF hs = {} THEN {}
       ELSE LET h  == FirstIndex(hs)
                us == {i \in DOMAIN out : i > h /\ out[i] = User0Line}
                e  == IF us = {} THEN Len(out) + 1 ELSE FirstIndex(us)
            IN {i \in DOMAIN out : h < i /\ i < e}

\* `"Disabled:\n" in output`: the output is stripped, so a marker on the last
\* line has no line break after it.
HasDisabledNewline(out) ==
    \E i \in DOMAIN out : out[i] = DisabledLine /\ i < Len(out)

\* output.split("Disabled:")[1]: the indexes of the lines between the first
\* marker and the second (or the end of the text).
SplitDisabled1(out) ==
    LET ds == {i \in DOMAIN out : out[i] = DisabledLine}
        d1 == FirstIndex(ds)
        rest == {i \in ds : i > d1}
        d2 == IF rest = {} THEN Len(out) + 1 ELSE FirstIndex(rest)
    IN {i \in DOMAIN out : d1 < i /\ i < d2}

is_disabled(out, domain) ==
    /\ HasDisabledNewline(out)
    /\ \E i \in SplitDisabled1(out) : Mentions(out[i], domain)

UserDisabledSuffix == " [USER DISABLED]"

\* A slip: 1024 falls through to the last row.
classify_no_legacy(code) ==
    IF code = 1 THEN [description |-> Description("Verified (Automatic)", <<>>), status |-> "success"]
    ELSE IF code = 2 THEN [description |-> Description("Approved (User)", <<>>), status |-> "success"]
    ELSE [description |-> Description("State Code: ", FormatInt(code)), status |-> "danger"]

\* The if/elif chain on the code.
classify(code) ==
    IF code = 1 THEN [description |-> Description("Verified (Automatic)", <<>>), status |-> "success"]
    ELSE IF code = 2 THEN [description |-> Description("Approved (User)", <<>>), status |-> "success"]
    ELSE IF code = 1024 THEN
        [description |-> Description("Legacy/Unverified (1024)", <<>>), status |-> "warning"]
    ELSE [description |-> Description("State Code: ", FormatInt(code)), status |-> "danger"]

\* The body of the loop over the matches: one domain record.
domain_record(out, line) ==
    LET code == ParseInt(line.state_code)
        c    == classify(code)
        dis  == is_disabled(out, line.domain)
    IN [domain      |-> line.domain,
        code        |-> code,
        description |-> IF dis THEN [c.description EXCEPT !.added = UserDisabledSuffix]
                        ELSE c.description,
        status      |-> IF dis THEN "danger" ELSE c.status]

RECURSIVE MatchesFrom(_, _, _)
\* re.findall(r"\s+([\w\.-]+):\s+(\d+)", block): the "<hostname>: <digits>"
\* lines of the block, in order.
MatchesFrom(out, block, i) ==
    IF i > Len(out) THEN <<>>
    ELSE (IF i \in block /\ out[i].k = "state" THEN <<out[i]>> ELSE <<>>)
         \o MatchesFrom(out, block, i + 1)

get_app_links_state(out) ==
    LET matches == MatchesFrom(out, VerificationBlock(out), 1)
    IN [m \in DOMAIN matches |-> domain_record(out, matches[m])]

InitLinks ==
    /\ pc = "input"
    /\ output = <<>>
    /\ app_links = Idle
    /\ raw_bytes = Idle /\ file_response = Idle
    /\ raw_data = Idle /\ raise_at = 0 /\ analysis = Idle
    /\ ls_output = Idle /\ magic_output = Idle /\ files = Idle

\* `pm get-app-links` prints one more line.
PmLine ==
    /\ pc = "input"
    /\ Len(output) < MaxLinkLines
    /\ \E l \in LinkLines : output' = Append(output, l)
    /\ UNCHANGED <<pc, app_links, raw_bytes, file_response, raw_data, raise_at,
                   analysis, ls_output, magic_output, files>>

GetAppLinksState ==
    /\ pc = "input"
    /\ app_links' = get_app_links_state(output)
    /\ pc' = "done"
    /\ UNCHANGED <<output, raw_bytes, file_response, raw_data, raise_at,
                   analysis, ls_output, magic_output, files>>

NextLinks == PmLine \/ GetAppLinksState

SpecLinks == InitLinks /\ [][NextLinks]_vars

(***************************************************************************)
(* Claims about get_app_links_state.                                       *)
(***************************************************************************)
\* The domain d is listed on a line of its own after some "Disabled:" marker.
ListedUnderDisabled(out, d) ==
    \E j, i \in DOMAIN out :
        j < i /\ out[j] = DisabledLine /\ out[i] = NameLine(d)

\* The text after some "Disabled:" marker contains the hostname d.
AppearsAfterDisabled(out, d) ==
    \E j, i \in DOMAIN out :
        j < i /\ out[j] = DisabledLine /\ Mentions(out[i], d)

HasSuffix(description) == description.added = UserDisabledSuffix

\* C1: every domain record whose domain is listed under a "Disabled:" marker
\* anywhere in the output, also when the output holds more than one marker,
\* has status danger and the user-disabled suffix, whatever its code.
C1_DisabledOverrides ==
    pc = "done" =>
        \A m \in DOMAIN app_links :
            ListedUnderDisabled(output, app_links[m].domain) =>
                /\ app_links[m].status = "danger"
                /\ HasSuffix(app_links[m].description)

\* The table of the specification: description and severity by code.
TableRow(code) ==
    CASE code = 1 -> [description |-> Description("Verified (Automatic)", <<>>), status |-> "success"]
      [] code = 2 -> [description |-> Description("Approved (User)", <<>>), status |-> "success"]
      [] code = 1024 -> [description |-> Description("Legacy/Unverified (1024)", <<>>), status |-> "warning"]
      [] OTHER -> [description |-> Description("State Code: ", FormatInt(code)), status |-> "danger"]

\* The "<hostname>: <integer>" lines of the verification-state section.
SectionStateLines(out) ==
    {i \in VerificationBlock(out) : out[i].k = "state"}

\* C4: every "<hostname>: <integer>" line of the verification-state section
\* yields one record, in order, and when its domain does not appear after a
\* "Disabled:" marker its description and status are those of the table row
\* of its code: 1, 2, 1024, and every other code (0 and 3 included).
C4_TableClassification ==
    pc = "done" =>
        /\ Len(app_links) = Cardinality(SectionStateLines(output))
        /\ \A i \in SectionStateLines(output) :
              LET m == Cardinality({j \in SectionStateLines(output) : j <= i})
                  r == app_links[m]
              IN /\ r.domain = output[i].domain
                 /\ r.code = ParseInt(output[i].state_code)
                 /\ ~AppearsAfterDisabled(output, r.domain) =>
                        /\ r.description = TableRow(r.code).description
                        /\ r.status = TableRow(r.code).status

\* C4's case: a legacy (1024) record and an unlisted-code record, neither
\* disabled, in an output that also holds a "Disabled:" marker.
C4_Witness ==
    /\ pc = "done"
    /\ DisabledLine \in Range(output)
    /\ \E m, n \in DOMAIN app_links :
          /\ app_links[m].code = 1024 /\ app_links[m].status = "warning"
          /\ app_links[n].code = 3 /\ app_links[n].status = "danger"
          /\ ~HasSuffix(app_links[n].description)

(***************************************************************************)
(* analyze_security_posture.  The package dump is a sequence of tokens:    *)
(* key=value items, section headers, permission lines, quoted declarations *)
(* and text the analyser has no pattern for.  Identifiers that end up in a *)
(* sorted list are represented by their rank in lexicographic order.       *)
(***************************************************************************)
MaxDumpTokens == 3

MaxPermTokens == 5

Unknown == "Unknown"

\* Rank 1, 2, 3 of the permission identifiers of the model.
PermName == <<"android.permission.CAMERA", "com.example.permission.PUSH",
              "org.example.permission.SYNC">>

\* Rank 1, 2 of the scheme values of the model.
SchemeName == <<"android.intent.category.DEFAULT", "https">>

KeyValue(key, v) == [k |-> key, v |-> v]

VersionNameTok == KeyValue("versionName=", "2.3.1")

VersionCodeTok == KeyValue("versionCode=", "42")

UserIdTok      == KeyValue("userId=", "10001")

AppIdTok       == KeyValue("appId=", "10002")

DataDirTok     == KeyValue("dataDir=", "/data/user/0/pkg")

DebuggableFlagTok == [k |-> "DEBUGGABLE"]

DebuggableAttrTok == [k |-> "debuggable=true"]

OtherTok == [k |-> "other"]

RequestedHeader == [k |-> "requested permissions:"]

InstallHeader   == [k |-> "install permissions:"]

UserHeader      == [k |-> "User 0"]

RuntimeHeader   == [k |-> "runtime permissions:"]

\* A line "<identifier>", "<identifier>: granted=true" or
\* "<identifier>: granted=false".
PermTok(id, granted) == [k |-> "perm", id |-> id, granted |-> granted]

SchemeTok(v)   == [k |-> "Scheme:", v |-> v]

ProviderTok(v) == [k |-> "Provider{", v |-> v]

ActionTok(v)   == [k |-> "Action:", v |-> v]

CategoryTok(v) == [k |-> "Category:", v |-> v]

DumpTokens ==
    {VersionNameTok, VersionCodeTok, UserIdTok, AppIdTok, DataDirTok,
     DebuggableFlagTok, DebuggableAttrTok, OtherTok,
     RequestedHeader, UserHeader, PermTok(1, "none"), PermTok(2, "true"),
     SchemeTok(1), SchemeTok(2), ProviderTok(1), ActionTok(1), CategoryTok(1)}

PermTokens ==
    {RequestedHeader, InstallHeader, UserHeader, RuntimeHeader,
     PermTok(1, "none"), PermTok(1, "true"), PermTok(2, "false"), PermTok(3, "none")}

Indexes(raw, key) == {i \in DOMAIN raw : raw[i].k = key}

\* A slip: a field whose marker is absent is set all the same, to the empty
\* string.
first_value_or_empty(raw, key, default) ==
    IF Indexes(raw, key) = {} THEN ""
    ELSE raw[FirstIndex(Indexes(raw, key))].v

\* re.search(key + "(...)", raw_data) and group(1): the value of the first
\* item with that key, or the default the dictionary was built with.
first_value(raw, key, default) ==
    IF Indexes(raw, key) = {} THEN default
    ELSE raw[FirstIndex(Indexes(raw, key))].v

user_id(raw) ==
    IF Indexes(raw, "userId=") # {} THEN first_value(raw, "userId=", Unknown)
    ELSE IF Indexes(raw, "appId=") # {} THEN first_value(raw, "appId=", Unknown)
    ELSE Unknown

is_debuggable(raw) ==
    Indexes(raw, "DEBUGGABLE") # {} \/ Indexes(raw, "debuggable=true") # {}

\* re.search(header + "(.*?)(" + terminators + ")", raw_data, re.DOTALL): the
\* indexes of group(1), between the first header and the first terminator
\* after it.  Without a terminator after the first header nothing matches.
section_block(raw, header, terminators) ==
    LET hs == {i \in DOMAIN raw : raw[i] = header}
    IN IF hs = {} THEN [matched |-> FALSE, idx |-> {}]
       ELSE LET h  == FirstIndex(hs)
                ts == {i \in DOMAIN raw : i > h /\ raw[i] \in terminators}
            IN IF ts = {} THEN [matched |-> FALSE, idx |-> {}]
               ELSE [matched |-> TRUE,
                     idx |-> {i \in DOMAIN raw : h < i /\ i < FirstIndex(ts)}]

\* android\.permission\.[\w_]+ | com\.[\w\.]+\.permission\.[\w_]+
requested_shape(id) == id \in {1, 2}

\* A slip: the identifiers searched in the whole text.
perm_block_whole_text(raw) == [matched |-> TRUE, idx |-> DOMAIN raw]

perm_block(raw) ==
    section_block(raw, RequestedHeader, {InstallHeader, UserHeader, RuntimeHeader})

requested_permissions(raw) ==
    LET b == perm_block(raw)
    IN IF b.matched
       THEN SortedSeq({raw[i].id : i \in {j \in b.idx :
                          raw[j].k = "perm" /\ requested_shape(raw[j].id)}})
       ELSE <<>>

\* ([\w\.]+\.permission\.[\w\_]+):\s*granted=true anywhere in the text.
granted_matches(raw) ==
    {raw[i].id : i \in {j \in DOMAIN raw : raw[j].k = "perm" /\ raw[j].granted = "true"}}

install_perm_block(raw) ==
    section_block(raw, InstallHeader, {UserHeader, RuntimeHeader})

install_perms(raw) ==
    LET b == install_perm_block(raw)
    IN IF b.matched THEN {raw[i].id : i \in {j \in b.idx : raw[j].k = "perm"}}
       ELSE {}

granted_permissions(raw) == SortedSeq(granted_matches(raw) \cup install_perms(raw))

all_values(raw, key) == {raw[i].v : i \in Indexes(raw, key)}

\* "android.intent.category.DEFAULT" (rank 1); "...BROWSABLE" is no value of the model.
ExcludedSchemes == {1}

schemes(raw) == SortedSeq(all_values(raw, "Scheme:") \ ExcludedSchemes)

providers(raw) == SortedSeq(all_values(raw, "Provider{"))

intent_actions(raw) == SortedSeq(all_values(raw, "Action:"))

intent_categories(raw) == SortedSeq(all_values(raw, "Category:"))

\* The dictionary `analysis` starts as.
DefaultAnalysis ==
    [version_name |-> Unknown, version_code |-> Unknown, user_id |-> Unknown,
     data_dir |-> Unknown, permissions |-> <<>>, granted_permissions |-> <<>>,
     schemes |-> <<>>, providers |-> <<>>, intent_actions |-> <<>>,
     intent_categories |-> <<>>, is_debuggable |-> FALSE]

Fields == DOMAIN DefaultAnalysis

\* What each field is assigned from the text.
Extracted(raw) ==
    [version_name |-> first_value(raw, "versionName=", Unknown),
     version_code |-> first_value(raw, "versionCode=", Unknown),
     user_id |-> user_id(raw),
     data_dir |-> first_value(raw, "dataDir=", Unknown),
     permissions |-> requested_permissions(raw),
     granted_permissions |-> granted_permissions(raw),
     schemes |-> schemes(raw), providers |-> providers(raw),
     intent_actions |-> intent_actions(raw),
     intent_categories |-> intent_categories(raw),
     is_debuggable |-> is_debuggable(raw)]

\* The statements of the try block that read the text, in order, and for each
\* field the statements that precede its assignment: the extraction of
\* intent_actions is assigned only after both findall calls of lines 188-189.
NStatements == 11

FirstStatement ==
    [version_name |-> 1, version_code |-> 2, user_id |-> 3, data_dir |-> 4,
     is_debuggable |-> 5, permissions |-> 6, granted_permissions |-> 7,
     schemes |-> 8, providers |-> 9, intent_actions |-> 10,
     intent_categories |-> 11]

LastStatement == [FirstStatement EXCEPT !.intent_actions = 11]

\* The statements that call into `re`; statement 5 is two `in` tests.
RaisingStatements == (1..NStatements) \ {5}

\* One try block around all of them: the statement that raises (k, 0 for
\* none) ends the block, and `except` returns the dictionary as it is.
assigned(f, k) == k = 0 \/ LastStatement[f] < k

analyze_security_posture(raw, k) ==
    LET e == Extracted(raw)
    IN [f \in Fields |-> IF assigned(f, k) THEN e[f] ELSE DefaultAnalysis[f]]

InitPosture ==
    /\ pc = "input"
    /\ raw_data = <<>>
    /\ raise_at = 0
    /\ analysis = Idle
    /\ raw_bytes = Idle /\ file_response = Idle
    /\ output = Idle /\ app_links = Idle
    /\ ls_output = Idle /\ magic_output = Idle /\ files = Idle

\* `dumpsys package <name>` prints one more item.
DumpsysToken ==
    /\ pc = "input"
    /\ Len(raw_data) < MaxDumpTokens
    /\ \E t \in DumpTokens : raw_data' = Append(raw_data, t)
    /\ UNCHANGED <<pc, raise_at, analysis, raw_bytes, file_response, output,
                   app_links, ls_output, magic_output, files>>

\* `dumpsys package <name>` prints one more line of its permission sections.
DumpsysPermToken ==
    /\ pc = "input"
    /\ Len(raw_data) < MaxPermTokens
    /\ \E t \in PermTokens : raw_data' = Append(raw_data, t)
    /\ UNCHANGED <<pc, raise_at, analysis, raw_bytes, file_response, output,
                   app_links, ls_output, magic_output, files>>

\* analyze_security_posture(raw_output) with no statement raising.
AnalyzeSecurityPosture ==
    /\ pc = "input"
    /\ analysis' = analyze_security_posture(raw_data, 0)
    /\ pc' = "done"
    /\ UNCHANGED <<raw_data, raise_at, raw_bytes, file_response, output,
                   app_links, ls_output, magic_output, files>>

\* analyze_security_posture(raw_output) with an exception (a MemoryError in a
\* findall, say) raised by statement k of the try block.
AnalyzeRaising ==
    /\ pc = "input"
    /\ \E k \in RaisingStatements :
          /\ raise_at' = k
          /\ analysis' = analyze_security_posture(raw_data, k)
    /\ pc' = "done"
    /\ UNCHANGED <<raw_data, raw_bytes, file_response, output,
                   app_links, ls_output, magic_output, files>>

NextPosture == DumpsysToken \/ AnalyzeSecurityPosture

SpecPosture == InitPosture /\ [][NextPosture]_vars

NextPerms == DumpsysPermToken \/ AnalyzeSecurityPosture

SpecPerms == InitPosture /\ [][NextPerms]_vars

NextFaults == DumpsysToken \/ AnalyzeSecurityPosture \/ AnalyzeRaising

SpecFaults == InitPosture /\ [][NextFaults]_vars

(***************************************************************************)
(* Claims about analyze_security_posture.                                  *)
(***************************************************************************)
\* C3: an error raised while extracting one field leaves that field at its
\* default and does not prevent the fields extracted after it from being
\* populated from the text.
C3_FailureContainedPerField ==
    (pc = "done" /\ raise_at # 0) =>
        \A f \in Fields :
            /\ (FirstStatement[f] <= raise_at /\ raise_at <= LastStatement[f])
                   => analysis[f] = DefaultAnalysis[f]
            /\ FirstStatement[f] > raise_at => analysis[f] = Extracted(raw_data)[f]

Has(raw, key) == \E i \in DOMAIN raw : raw[i].k = key

IdentityKeys == {"versionName=", "versionCode=", "userId=", "appId=", "dataDir="}

HeaderKeys == {"requested permissions:", "install permissions:", "runtime permissions:"}

NoIdentityMarker(raw) == \A key \in IdentityKeys : ~Has(raw, key)

NoPermissionHeader(raw) == \A key \in HeaderKeys : ~Has(raw, key)

NoSchemeDeclaration(raw) == ~Has(raw, "Scheme:")

\* The text holds nothing any extraction looks for: no identity marker, no
\* debuggable marker, no permission header, no granted=true mark and no
\* Scheme, Provider, Action or Category declaration.
NoExtractablePattern(raw) ==
    /\ NoIdentityMarker(raw) /\ NoPermissionHeader(raw) /\ NoSchemeDeclaration(raw)
    /\ ~Has(raw, "DEBUGGABLE") /\ ~Has(raw, "debuggable=true")
    /\ ~Has(raw, "Provider{") /\ ~Has(raw, "Action:") /\ ~Has(raw, "Category:")
    /\ \A i \in DOMAIN raw : raw[i].k = "perm" => raw[i].granted # "true"

\* Each identity field whose marker is absent keeps "Unknown" (user_id has
\* two markers, userId= and appId=).
AbsentIdentityKeepsUnknown ==
    /\ ~Has(raw_data, "versionName=") => analysis.version_name = Unknown
    /\ ~Has(raw_data, "versionCode=") => analysis.version_code = Unknown
    /\ (~Has(raw_data, "userId=") /\ ~Has(raw_data, "appId=")) => analysis.user_id = Unknown
    /\ ~Has(raw_data, "dataDir=") => analysis.data_dir = Unknown

\* C6, as stated: a text with none of the identity markers, permission
\* headers or scheme declarations gives the all-default profile (is_debuggable
\* false, providers, intent_actions and intent_categories empty included), and
\* each absent identity field keeps "Unknown".
C6_DefaultsAsStated ==
    pc = "done" =>
        /\ (NoIdentityMarker(raw_data) /\ NoPermissionHeader(raw_data)
              /\ NoSchemeDeclaration(raw_data)) => analysis = DefaultAnalysis
        /\ AbsentIdentityKeepsUnknown

\* C6, amended: a text that holds nothing any extraction looks for (see
\* NoExtractablePattern) gives the all-default profile, and each absent
\* identity field keeps "Unknown".
C6_DefaultsWithoutPatterns ==
    pc = "done" =>
        /\ NoExtractablePattern(raw_data) => analysis = DefaultAnalysis
        /\ AbsentIdentityKeepsUnknown

\* C6's case: a text of unrecognised items and a permission-looking identifier
\* outside any section, analysed to the all-default profile.
C6_Witness ==
    /\ pc = "done"
    /\ NoExtractablePattern(raw_data)
    /\ OtherTok \in Range(raw_data)
    /\ PermTok(1, "none") \in Range(raw_data)
    /\ analysis = DefaultAnalysis

\* The identifiers marked granted=true anywhere in the text.
MarkedGranted(raw) ==
    {id \in 1..Len(PermName) : \E i \in DOMAIN raw : raw[i] = PermTok(id, "true")}

\* The span after the first header h, up to the first of the headers `ends`
\* after it, or up to the end of the text when none follows.
SpanToEnd(raw, h, ends) ==
    {i \in DOMAIN raw :
        /\ \E j \in DOMAIN raw : j < i /\ raw[j] = h /\ (\A l \in 1..(j-1) : raw[l] # h)
                                  /\ \A m \in (j+1)..i : raw[m] \notin ends}

\* C9: granted_permissions is the sorted, duplicate-free union of the
\* identifiers marked granted=true anywhere and the identifiers listed inside
\* the install-permissions span, also when no "User <digit>" or
\* "runtime permissions:" header follows that span.
C9_GrantedIsUnion ==
    pc = "done" =>
        analysis.granted_permissions =
            SortedSeq(MarkedGranted(raw_data) \cup
                      {raw_data[i].id : i \in {j \in SpanToEnd(raw_data, InstallHeader,
                                                       {UserHeader, RuntimeHeader}) :
                                                  raw_data[j].k = "perm"}})

SectionHeaders == {InstallHeader, UserHeader, RuntimeHeader}

\* The positions between the first "requested permissions:" header and the
\* first section header after it; empty without such a header pair.
RequestedSpan(raw) ==
    {i \in DOMAIN raw :
        \E h, e \in DOMAIN raw :
            /\ h < i /\ i < e
            /\ raw[h] = RequestedHeader /\ (\A l \in 1..(h-1) : raw[l] # RequestedHeader)
            /\ raw[e] \in SectionHeaders
            /\ \A m \in (h+1)..i : raw[m] \notin SectionHeaders}

\* An identifier of one of the two forms requested permissions are written
\* in: android.permission.X or com.<...>.permission.X (ranks 1 and 2).
IsRequestedIdentifier(id) ==
    PermName[id] \in {"android.permission.CAMERA", "com.example.permission.PUSH"}

StrictlyAscending(seq) == \A i, j \in DOMAIN seq : i < j => seq[i] < seq[j]

MaxLsLines == 2

MaxLsTokens == 7

\* `if len(parts) < 7: continue`
MinParts == 7

\* A permission string, by its first character: "-rw-rw----", "drwxrwx--x",
\* "lrwxrwxrwx".
PermsTok(c) == [k |-> "perms", v |-> c]

\* A token re.match(r"\d{4}-\d{2}-\d{2}", p) accepts: "2023-05-01".
DateTok     == [k |-> "date", v |-> "2023-05-01"]

\* Any other token; "w<i>" for i in 1..9, told apart by i.
WordTok(i)  == [k |-> "word", v |-> i]

TotalTok    == [k |-> "total", v |-> "total"]

\* A line of n tokens with a date token at position d (0: none) and, with
\* `second`, one more date token at its end; a permission string comes first
\* unless the date does.
MkLine(n, d, second, c) ==
    [i \in 1..n |-> IF i = d \/ (second /\ i = n) THEN DateTok
                    ELSE IF i = 1 THEN PermsTok(c)
                    ELSE WordTok(i)]

\* "-rw-rw---- 1 u0_a123 sdcard_rw 1024 2023-05-01 10:00 my file.txt"
ScenarioLine == MkLine(9, 6, FALSE, "-")

\* "total 8", and a line that starts with "total " and is otherwise a listing line.
TotalLine == <<TotalTok, WordTok(2)>>

LongTotalLine == [MkLine(MinParts, 5, FALSE, "-") EXCEPT ![1] = TotalTok]

BlankLine == <<>>

LsLines ==
    {BlankLine, TotalLine, LongTotalLine, ScenarioLine}
    \cup {MkLine(n, d, second, "-") :
            n \in (MinParts - 1)..MaxLsTokens, d \in 0..MaxLsTokens, second \in BOOLEAN}

IsDate(tok) == tok.k = "date"

\* perms.startswith(c)
StartsWith(tok, c) == tok.k = "perms" /\ tok.v = c

\* A slip: the scan keeps going, and the last date token wins.
date_index_last(parts) ==
    LET ds == {i \in DOMAIN parts : IsDate(parts[i])}
    IN IF ds = {} THEN 0 ELSE CHOOSE i \in ds : \A j \in ds : j <= i

\* for i, p in enumerate(parts): if re.match(...): date_idx = i; break
\* (1-based here; 0 stands for Python's -1, no date token).
date_index(parts) ==
    LET ds == {i \in DOMAIN parts : IsDate(parts[i])}
    IN IF ds = {} THEN 0 ELSE FirstIndex(ds)

\* The body of the loop over the lines: the entries (none or one) a line adds.
parse_line(line) ==
    IF Len(line) = 0 THEN <<>>                                 \* `if not line`
    ELSE IF line[1] = TotalTok /\ Len(line) >= 2 THEN <<>>     \* startswith("total ")
    ELSE IF Len(line) < MinParts THEN <<>>
    ELSE LET d == date_index(line)
         IN IF d = 0 THEN <<>>
            \* parts[date_idx+1] raises IndexError, and `except` passes
            ELSE IF d + 1 > Len(line) THEN <<>>
            ELSE <<[name  |-> SubSeq(line, d + 2, Len(line)),
                    type  |-> IF StartsWith(line[1], "d") THEN "dir"
                              ELSE IF StartsWith(line[1], "l") THEN "link" ELSE "file",
                    \* parts[date_idx-1]: with date_idx = 0 Python indexes
                    \* from the end, parts[-1]
                    size  |-> IF d = 1 THEN line[Len(line)] ELSE line[d - 1],
                    date  |-> <<line[d], line[d + 1]>>,
                    perms |-> line[1],
                    raw   |-> line]>>

parse_ls_output(out) == Flatten([i \in DOMAIN out |-> parse_line(out[i])])

InitLs ==
    /\ pc = "input"
    /\ ls_output = <<>>
    /\ magic_output = Idle
    /\ files = Idle
    /\ raw_bytes = Idle /\ file_response = Idle
    /\ output = Idle /\ app_links = Idle
    /\ raw_data = Idle /\ raise_at = 0 /\ analysis = Idle

\* `ls -l` prints one more line.
LsLine ==
    /\ pc = "input"
    /\ Len(ls_output) < MaxLsLines
    /\ \E l \in LsLines : ls_output' = Append(ls_output, l)
    /\ UNCHANGED <<pc, magic_output, files, raw_bytes, file_response, output,
                   app_links, raw_data, raise_at, analysis>>

\* files = parse_ls_output(output)
ParseLsOutput ==
    /\ pc = "input"
    /\ files' = parse_ls_output(ls_output)
    /\ pc' = "done"
    /\ UNCHANGED <<ls_output, magic_output, raw_bytes, file_response, output,
                   app_links, raw_data, raise_at, analysis>>

NextLs == LsLine \/ ParseLsOutput

SpecLs == InitLs /\ [][NextLs]_vars

(***************************************************************************)
(* list_files_in_path: the listing, the `file *` probe, the enrichment of  *)
(* the regular entries and the final sort.                                 *)
(***************************************************************************)
MaxMagicLines == 2

\* "ls: <path>: Permission denied" and "ls: <path>: No such file or directory"
DeniedLine == <<[k |-> "Permission denied", v |-> 0]>>

NoSuchFileLine == <<[k |-> "No such file", v |-> 0]>>

\* A listing line "<perms> 1 u0 g 1024 2023-05-01 10:00 <name>".
MkFileLine(c, name) ==
    <<PermsTok(c), WordTok(2), WordTok(3), WordTok(4), WordTok(5), DateTok, WordTok(7)>>
    \o name

FileNames == {<<WordTok(8)>>, <<WordTok(9)>>}

FileLines ==
    {DeniedLine, NoSuchFileLine}
    \cup {MkFileLine(c, n) : c \in {"-", "d", "l"}, n \in FileNames}

\* The marks a probe line may carry around a name.
DotSlash    == [k |-> "./", v |-> 0]

SingleQuote == [k |-> "'", v |-> 0]

DoubleQuote == [k |-> "\"", v |-> 0]

\* A line "<fname>: <desc>" of `file *`, the name as its pieces; a line
\* without ": " has has_sep FALSE.
ProbeLine(fname, desc) == [has_sep |-> TRUE, fname |-> fname, desc |-> desc]

NoiseLine == [has_sep |-> FALSE, fname |-> <<>>, desc |-> ""]

\* What magic_output holds when run_adb_command raised.
ProbeFailure == [has_sep |-> FALSE, fname |-> <<>>, desc |-> "HTTPException"]

ProbeLines ==
    {NoiseLine,
     ProbeLine(<<WordTok(8)>>, "data"),
     ProbeLine(<<DotSlash, WordTok(8)>>, "ASCII text"),
     ProbeLine(<<SingleQuote, WordTok(8), SingleQuote>>, "data"),
     ProbeLine(<<DoubleQuote, DotSlash, WordTok(8), DoubleQuote>>, "data"),
     ProbeLine(<<WordTok(9)>>, "ASCII text"),
     ProbeLine(<<WordTok(6)>>, "data")}

RECURSIVE LStrip(_, _)
LStrip(seq, c) == IF seq # <<>> /\ Head(seq) = c THEN LStrip(Tail(seq), c) ELSE seq

RECURSIVE RStrip(_, _)
RStrip(seq, c) ==
    IF seq # <<>> /\ seq[Len(seq)] = c THEN RStrip(SubSeq(seq, 1, Len(seq) - 1), c)
    ELSE seq

\* fname.strip(c)
Strip(seq, c) == RStrip(LStrip(seq, c), c)

\* if fname.startswith("./"): fname = fname[2:]; fname.strip("'").strip('"')
normalise_fname(fname) ==
    LET f1 == IF fname # <<>> /\ Head(fname) = DotSlash THEN Tail(fname) ELSE fname
    IN Strip(Strip(f1, SingleQuote), DoubleQuote)

None == "None"

\* magic_map.get(name, None) after the loop over the probe lines: the
\* description of the last line whose normalised name is `name`.
magic_map_get(magic, name) ==
    LET hits == {i \in DOMAIN magic :
                    magic[i].has_sep /\ normalise_fname(magic[i].fname) = name}
    IN IF hits = {} THEN None
       ELSE magic[CHOOSE i \in hits : \A j \in hits : j <= i].desc

WithMagic(f, v) ==
    [x \in DOMAIN f \cup {"magic"} |-> IF x = "magic" THEN v ELSE f[x]]

\* A slip: every entry is enriched, whatever its type.
enrich_any_type(f, magic) == WithMagic(f, magic_map_get(magic, f.name))

\* if f['type'] == 'file': f['magic'] = magic_map.get(f['name'], None)
enrich(f, magic) ==
    IF f.type = "file" THEN WithMagic(f, magic_map_get(magic, f.name)) ELSE f

\* The order of the tokens as strings: "-rw..." < "2023-..." < "drwx..." <
\* "lrwx..." < "total" < "w1" < ... < "w9".
TokRank(tok) ==
    IF tok = PermsTok("-") THEN 1
    ELSE IF tok = DateTok THEN 2
    ELSE IF tok = PermsTok("d") THEN 3
    ELSE IF tok = PermsTok("l") THEN 4
    ELSE IF tok = TotalTok THEN 5
    ELSE 5 + tok.v

RECURSIVE NameLess(_, _)
\* x < y for two names, token sequences joined by single spaces.
NameLess(x, y) ==
    IF y = <<>> THEN FALSE
    ELSE IF x = <<>> THEN TRUE
    ELSE IF TokRank(Head(x)) # TokRank(Head(y)) THEN TokRank(Head(x)) < TokRank(Head(y))
    ELSE NameLess(Tail(x), Tail(y))

\* key=lambda x: (x['type'] != 'dir', x['name'])
KeyLess(x, y) ==
    \/ (x.type = "dir" /\ y.type # "dir")
    \/ ((x.type = "dir") = (y.type = "dir") /\ NameLess(x.name, y.name))

RECURSIVE Insert(_, _)
\* x put after every entry whose key is not greater: the sort is stable.
Insert(sorted, x) ==
    IF sorted = <<>> THEN <<x>>
    ELSE IF KeyLess(x, Head(sorted)) THEN <<x>> \o sorted
    ELSE <<Head(sorted)>> \o Insert(Tail(sorted), x)

RECURSIVE SortFiles(_)
SortFiles(fs) ==
    IF fs = <<>> THEN <<>>
    ELSE Insert(SortFiles(SubSeq(fs, 1, Len(fs) - 1)), fs[Len(fs)])

\* "Permission denied" in output, "No such file" in output
EarlyReturn(out) == DeniedLine \in Range(out) \/ NoSuchFileLine \in Range(out)

ProbeFailed(magic) == ProbeFailure \in Range(magic)

list_files_in_path(out, magic) ==
    IF EarlyReturn(out) THEN <<>>
    ELSE LET parsed   == parse_ls_output(out)
             enriched == IF ProbeFailed(magic) THEN parsed
                         ELSE [i \in DOMAIN parsed |-> enrich(parsed[i], magic)]
         IN SortFiles(enriched)

InitFiles ==
    /\ pc = "input"
    /\ ls_output = <<>>
    /\ magic_output = <<>>
    /\ files = Idle
    /\ raw_bytes = Idle /\ file_response = Idle
    /\ output = Idle /\ app_links = Idle
    /\ raw_data = Idle /\ raise_at = 0 /\ analysis = Idle

\* `ls -l <path>` prints one more line.
LsFileLine ==
    /\ pc = "input"
    /\ Len(ls_output) < MaxLsLines
    /\ \E l \in FileLines : ls_output' = Append(ls_output, l)
    /\ UNCHANGED <<pc, magic_output, files, raw_bytes, file_response, output,
                   app_links, raw_data, raise_at, analysis>>

\* `file *` prints one more line.
FileProbeLine ==
    /\ pc = "input"
    /\ ~ProbeFailed(magic_output)
    /\ Len(magic_output) < MaxMagicLines
    /\ \E l \in ProbeLines : magic_output' = Append(magic_output, l)
    /\ UNCHANGED <<pc, ls_output, files, raw_bytes, file_response, output,
                   app_links, raw_data, raise_at, analysis>>

\* run_adb_command raises for the probe.
FileProbeFails ==
    /\ pc = "input"
    /\ magic_output = <<>>
    /\ magic_output' = <<ProbeFailure>>
    /\ UNCHANGED <<pc, ls_output, files, raw_bytes, file_response, output,
                   app_links, raw_data, raise_at, analysis>>

\* GET /files/{device_id}
ListFilesInPath ==
    /\ pc = "input"
    /\ files' = list_files_in_path(ls_output, magic_output)
    /\ pc' = "done"
    /\ UNCHANGED <<ls_output, magic_output, raw_bytes, file_response, output,
                   app_links, raw_data, raise_at, analysis>>

NextFiles == LsFileLine \/ FileProbeLine \/ FileProbeFails \/ ListFilesInPath

SpecFiles == InitFiles /\ [][NextFiles]_vars

(***************************************************************************)
(* Claims about parse_ls_output and list_files_in_path.                    *)
(***************************************************************************)
FirstDate(line) == FirstIndex({i \in DOMAIN line : IsDate(line[i])})

HasDate(line) == \E i \in DOMAIN line : IsDate(line[i])

\* A non-blank, non-"total " line of at least 7 tokens, one of them a date.
Eligible(line) ==
    /\ Len(line) >= MinParts
    /\ line[1] # TotalTok
    /\ HasDate(line)

\* The k-th entry of `files` answers the k-th line of those in `lines`, and
\* there is no other entry.
OneEntryPerLine(lines, Right(_, _)) ==
    /\ Len(files) = Cardinality(lines)
    /\ \A i \in lines :
          Right(files[Cardinality({j \in lines : j <= i})], ls_output[i])

\* The entry the claim describes for a line: the size is the token before
\* the first date token, the date that token and the one after it, the name
\* the tokens after those.
EntryAsStated(e, line) ==
    LET d == FirstDate(line)
    IN /\ d > 1 /\ e.size = line[d - 1]
       /\ d < Len(line) /\ e.date = <<line[d], line[d + 1]>>
       /\ e.name = SubSeq(line, d + 2, Len(line))
       /\ e.raw = line

\* C8, as stated: every eligible line yields exactly one entry as described,
\* wherever its first date token sits, the first and the last position
\* included; the other lines yield none.
C8_EntryPerDatedLine ==
    pc = "done" =>
        OneEntryPerLine({i \in DOMAIN ls_output : Eligible(ls_output[i])}, EntryAsStated)

\* The entry of a line whose first date token is not its last token; with
\* the date token first, the size is the last token of the line.
EntryAmended(e, line) ==
    LET d == FirstDate(line)
    IN /\ e.size = IF d > 1 THEN line[d - 1] ELSE line[Len(line)]
       /\ e.date = <<line[d], line[d + 1]>>
       /\ e.name = SubSeq(line, d + 2, Len(line))
       /\ e.raw = line

\* C8, amended: every eligible line whose first date token is not its last
\* token yields exactly one entry (size: the token before the first date
\* token, or the line's last token when the date token comes first); an
\* eligible line whose first date token is its last token yields none, like
\* the lines that are not eligible; no line stops the parse of the others.
C8_EntryPerDatedLineAmended ==
    pc = "done" =>
        OneEntryPerLine({i \in DOMAIN ls_output :
                            /\ Eligible(ls_output[i])
                            /\ FirstDate(ls_output[i]) < Len(ls_output[i])},
                        EntryAmended)

\* C8's case: a line whose only date token comes last, skipped, followed by
\* the scenario line, parsed.
C8_Witness ==
    /\ pc = "done"
    /\ Len(ls_output) = 2
    /\ ls_output[1] = MkLine(MinParts, MinParts, FALSE, "-")
    /\ ls_output[2] = ScenarioLine
    /\ Len(files) = 1
    /\ files[1].size = WordTok(5)
    /\ files[1].name = <<WordTok(8), WordTok(9)>>

\* The fields parse_ls_output gives an entry.
ParsedFields == {"name", "type", "size", "date", "perms", "raw"}

Restrict(f, keys) == [x \in keys |-> f[x]]

\* How many entries of fs are, on the parsed fields, the entry e.
Count(fs, e) ==
    Cardinality({i \in DOMAIN fs : Restrict(fs[i], ParsedFields) = e})

\* Two lists hold the same entries the same number of times.
SameEntries(fs, gs) ==
    /\ Len(fs) = Len(gs)
    /\ \A i \in DOMAIN gs : Count(fs, gs[i]) = Count(gs, gs[i])

\* Some probe line names `name`, a leading "./" and surrounding quotes apart.
MatchesProbeLine(name) ==
    \E i \in DOMAIN magic_output :
        /\ magic_output[i].has_sep
        /\ normalise_fname(magic_output[i].fname) = name

\* C7: the enrichment adds the content hint and nothing else: a directory or
\* symlink entry never has a magic field, a regular entry whose name matches
\* no probe line has an absent or null hint, and whether the probe succeeds or
\* fails the entries are those of parse_ls_output, field by field.
C7_EnrichmentIsAdditive ==
    (pc = "done" /\ ~EarlyReturn(ls_output)) =>
        /\ \A i \in DOMAIN files :
              /\ DOMAIN files[i] \subseteq ParsedFields \cup {"magic"}
              /\ files[i].type \in {"dir", "link"} => "magic" \notin DOMAIN files[i]
              /\ (files[i].type = "file" /\ ~MatchesProbeLine(files[i].name)) =>
                    ("magic" \notin DOMAIN files[i] \/ files[i].magic = None)
        /\ SameEntries(files, parse_ls_output(ls_output))

\* C7's case: a listing with a directory and a regular file, probed
\* successfully: the file has its hint, the directory no magic field.
C7_Witness ==
    /\ pc = "done"
    /\ ~ProbeFailed(magic_output)
    /\ Len(files) = 2
    /\ files[1].type = "dir" /\ "magic" \notin DOMAIN files[1]
    /\ files[2].type = "file" /\ files[2].magic = "data"
    /\ files[1].name = files[2].name

====
